---- MODULE Spec2Model ----
(***************************************************************************)
(* Model of the streak-analysis engine of JittoEngChallenge:               *)
(* simulateBackendCall of src/JittoEngChallenge/src/App.tsx (lines 49-98), *)
(* and of the App component that calls it.                                 *)
(*                                                                         *)
(* An invocation is modelled statement block by statement block: the      *)
(* generation of a run of Bernoulli trials, every iteration of the scanner *)
(* loop, the checkpoint after every run and the return.  Math.random() is  *)
(* a nondeterministic draw.  Real numbers are exact fractions <<n, d>> in  *)
(* lowest terms.                                                           *)
(***************************************************************************)
EXTENDS Integers, Sequences, FiniteSets, TLC

(* ---------------------------- bounds ---------------------------------- *)

\* Trials per run.  The program generates 100 (App.tsx:68) and scans while
\* i < 98 (App.tsx:73); the model keeps the relation 98 = 100 - 2 and
\* enumerates every run of this shorter length.
TrialCount == 6

\* Largest numSequences tried when the trials are random (0 < rate < 1).
MaxSequences == 2

\* Largest numSequences tried when the trials are determined by the rate
\* (Math.random() < 0 never holds, Math.random() < 1 always holds).
MaxCheckpointSequences == 30

\* Number of times the caller invokes simulateBackendCall with one request,
\* and the largest numSequences tried when it invokes it more than once.
MaxInvocations == 2
MaxRepeatSequences == 1

\* Largest numSequences of the two requests of a comparison.
MaxCompareSequences == 1

\* Largest sum of the numSequences of the two requests of a comparison.
MaxCompareTotal == 2

\* Handler invocations (handleRun, handleCompare) started against the remote
\* backend in one behaviour, and how many of them may await it at once.
MaxStarts == 2
MaxPending == 2

\* Longest snapshot list in a response of the remote backend.

(* ---------------------------- values ---------------------------------- *)

\* An optional value is a sequence of at most one element: undefined is the
\* empty one.
Undefined == <<>>
Defined(x) == <<x>>

\* successRate values of the requests: 0, 1/2 and 1, as fractions <<n, d>>.
Half == <<1, 2>>
Rates == {<<0, 1>>, Half, <<1, 1>>}

\* seed is optional (ExperimentParams.seed?: number).
Seeds == {Undefined, Defined(42)}

RECURSIVE GCD(_, _)
GCD(a, b) == IF b = 0 THEN a ELSE GCD(b, a % b)

Abs(x) == IF x < 0 THEN -x ELSE x

\* The number n/d (d > 0) as a fraction in lowest terms: the value of a
\* JavaScript number is the same however it was computed.
Frac(n, d) ==
  LET g == GCD(Abs(n), d)
  IN  IF n = 0 THEN <<0, 1>> ELSE <<n \div g, d \div g>>

\* a - b for fractions.
FracSub(a, b) == Frac(a[1] * b[2] - b[1] * a[2], a[2] * b[2])

(* ---------------------------- state ----------------------------------- *)

VARIABLES
  successRate,     \* params.successRate
  numSequences,    \* params.numSequences
  seed,            \* params.seed
  pc,              \* position of the invocation
  snapshots,       \* const snapshots: Snapshot[]
  snapshotInterval,\* const snapshotInterval
  streakTotal,     \* let streakTotal
  streakSuccess,   \* let streakSuccess
  seqNum,          \* outer loop variable
  sequence,        \* const sequence, indexed 0 .. TrialCount-1
  i,               \* scanner loop variable
  windows,         \* indices i at which this run's scan executed streakTotal++
  totalAtRunStart, \* streakTotal when the current run was generated
  successAtRunStart,\* streakSuccess when the current run was generated
  returned,        \* values the invocations have returned, oldest first
  visited,         \* indices i at which this run's scanner body has run
  drawnCounts,     \* per generated run of this invocation, its occurrences
  callIndex,       \* which call of handleCompare is running (0: none)
  run1,            \* params.run1 of handleCompare
  run2,            \* params.run2 of handleCompare
  appSnapshots,    \* App state snapshots (useState)
  final,           \* App state final
  loading,         \* App state loading
  comparisonResults,\* App state comparisonResults
  currentStep,     \* App state currentStep
  isAnimating,     \* App state isAnimating
  experimentHistory,\* App state experimentHistory, newest first
  pending,         \* handler invocations awaiting callBackend, oldest first
  started,         \* number of handler invocations started so far
  clock,           \* the time new Date() reads (line 130), in readings
  comparisonArrivals,  \* of the comparison comparisonResults is from: its
                       \* calls in the order they resolved, with their results
  latestRun,           \* the most recently started handleRun: its number
                       \* among the starts and what its callBackend resolved
                       \* with, if it has
  inputSuccessRate,  \* InputForm state successRate
  inputNumSequences, \* InputForm state numSequences
  inputSeed,         \* InputForm state seed, the text of the input
  error,             \* InputForm state error
  isComparisonMode,  \* App state isComparisonMode, a prop of InputForm
  onRunCalls,        \* number of calls InputForm made of its prop onRun
  onRunParams,       \* the argument of the latest of these calls
  refusedSubmits,    \* number of submits that ended with setError(message)
  keyListener,       \* the keydown listener registered by InputForm, as the
                     \* form values its handleSubmit closes over
  comparisonRun1,    \* InputForm state comparisonRun1
  comparisonRun2,    \* InputForm state comparisonRun2
  onCompareCalls,    \* number of calls InputForm made of its prop onCompare
  onCompareParams    \* the argument of the latest of these calls

\* The state of the App component.
app == <<appSnapshots, final, loading, comparisonResults, currentStep,
         isAnimating, experimentHistory>>

\* The arguments of handleCompare and its position.
compare == <<callIndex, run1, run2>>

vars == <<successRate, numSequences, seed, pc, snapshots, snapshotInterval,
          streakTotal, streakSuccess, seqNum, sequence, i, windows,
          totalAtRunStart, successAtRunStart, returned, visited, drawnCounts,
          callIndex, run1, run2, appSnapshots, final, loading,
          comparisonResults, currentStep, isAnimating, experimentHistory,
          pending, started, clock, comparisonArrivals, latestRun,
          inputSuccessRate,
          inputNumSequences, inputSeed, error, isComparisonMode, onRunCalls,
          onRunParams, refusedSubmits, keyListener, comparisonRun1,
          comparisonRun2, onCompareCalls, onCompareParams>>

\* The handler invocations that await the remote backend, and the clock.
remote == <<pending, started, clock, comparisonArrivals, latestRun>>

\* The state of the InputForm component and the calls it made.
form == <<inputSuccessRate, inputNumSequences, inputSeed, error,
          isComparisonMode, onRunCalls, onRunParams, refusedSubmits,
          keyListener, comparisonRun1, comparisonRun2, onCompareCalls,
          onCompareParams>>

\* The comparison cards of InputForm and the calls of onCompare.
comparisonForm == <<comparisonRun1, comparisonRun2, onCompareCalls,
                    onCompareParams>>


params == <<successRate, numSequences, seed>>
locals == <<snapshots, snapshotInterval, streakTotal, streakSuccess, seqNum,
            sequence, i, windows, totalAtRunStart, successAtRunStart, visited,
            drawnCounts>>

\* The variables of one simulateBackendCall and of handleCompare around it.
engine == <<params, pc, locals, returned, compare>>

NoSequence == <<>>

(* ---------------------------- helpers --------------------------------- *)

Max(a, b) == IF a >= b THEN a ELSE b

Min(a, b) == IF a <= b THEN a ELSE b

\* Variant of SnapshotInterval: a twentieth of the runs.
SnapshotIntervalTwentieth(n) == Max(1, n \div 20)

\* Math.max(1, Math.floor(numSequences / 10))
SnapshotInterval(n) == Max(1, n \div 10)

\* Variant of SnapshotDue: the final run is not forced.
SnapshotDueNoTail(k, interval, n) == k % interval = 0

\* Variant of SnapshotDue: the run number is taken zero-based.
SnapshotDueZeroBased(k, interval, n) == (k - 1) % interval = 0 \/ k = n

\* Variant of SnapshotDue: the interval is fixed at ten runs.
SnapshotDueEveryTen(k, interval, n) == k % 10 = 0 \/ k = n

\* seqNum % snapshotInterval === 0 || seqNum === numSequences
SnapshotDue(k, interval, n) == k % interval = 0 \/ k = n

\* Variant of Estimate: the share of followers that failed.
EstimateOfFailures(success, total) ==
  IF total > 0 THEN Frac(total - success, total) ELSE <<0, 1>>

\* Variant of Estimate: the operands of the division are exchanged.
EstimateInverted(success, total) ==
  IF success > 0 THEN Frac(total, success) ELSE <<0, 1>>

\* streakTotal > 0 ? streakSuccess / streakTotal : 0
Estimate(success, total) == IF total > 0 THEN Frac(success, total) ELSE <<0, 1>>

\* Variant of MakeSnapshot: difference is successRate - estimate.
MakeSnapshotDifferenceReversed(k, success, total, rate) ==
  LET estimate == Estimate(success, total)
  IN  [sequences  |-> k,
       estimate   |-> estimate,
       input_rate |-> rate,
       difference |-> FracSub(rate, estimate)]

\* Variant of MakeSnapshot: sequences is the zero-based run index.
MakeSnapshotZeroBased(k, success, total, rate) ==
  LET estimate == Estimate(success, total)
  IN  [sequences  |-> k - 1,
       estimate   |-> estimate,
       input_rate |-> rate,
       difference |-> FracSub(estimate, rate)]

\* The object pushed on snapshots.
MakeSnapshot(k, success, total, rate) ==
  LET estimate == Estimate(success, total)
  IN  [sequences  |-> k,
       estimate   |-> estimate,
       input_rate |-> rate,
       difference |-> FracSub(estimate, rate)]

\* Scanner loop condition: i < 98, the trial count less two.
ScanContinues(idx) == idx < TrialCount - 2

\* sequence[i] === 1 && sequence[i + 1] === 1
IsPair(seq, idx) == seq[idx] = 1 /\ seq[idx + 1] = 1

\* i + 2 < 100
HasFollower(idx) == idx + 2 < TrialCount

\* Variant of CountOccurrence: the two counters are exchanged.
CountOccurrenceSwapped(total, success, follower) ==
  <<IF follower = 1 THEN total + 1 ELSE total, success + 1>>

\* streakTotal++; if (sequence[i + 2] === 1) streakSuccess++;
\* as the pair <<streakTotal, streakSuccess>> after the statements.
CountOccurrence(total, success, follower) ==
  <<total + 1, IF follower = 1 THEN success + 1 ELSE success>>

\* Variant of NextIndex: the skip past the pair and its follower is missing.
NextIndexOverlapping(idx, matched) == idx + 1

\* Variant of NextIndex: the loop's own i++ is not added after "i += 2".
NextIndexSkipTwo(idx, matched) == IF matched THEN idx + 2 ELSE idx + 1

\* The scanner index after one iteration: "i += 2" on a pair, then the
\* loop's own i++.
NextIndex(idx, matched) == IF matched THEN (idx + 2) + 1 ELSE idx + 1

\* The scanner loop of lines 73-83 run from index idx with the counters
\* total and success: the counters when the loop ends.
RECURSIVE ScanFrom(_, _, _, _)
ScanFrom(seq, idx, total, success) ==
  IF ScanContinues(idx)
  THEN IF IsPair(seq, idx) /\ HasFollower(idx)
       THEN LET counted == CountOccurrence(total, success, seq[idx + 2])
            IN  ScanFrom(seq, NextIndex(idx, TRUE), counted[1], counted[2])
       ELSE ScanFrom(seq, NextIndex(idx, IsPair(seq, idx)), total, success)
  ELSE <<total, success>>

\* What the scan of one run adds to <<streakTotal, streakSuccess>>.
ScanCount(seq) == ScanFrom(seq, 0, 0, 0)

\* Outcomes of (Math.random() < successRate ? 1 : 0), Math.random() in [0, 1).
Draws(rate) ==
  IF rate[1] <= 0 THEN {0}
  ELSE IF rate[1] >= rate[2] THEN {1}
  ELSE {0, 1}

\* Array.from({ length: 100 }, () => ...): every array the draws can produce.
Runs(rate) == [0 .. TrialCount - 1 -> Draws(rate)]

\* Variant of LastOf: the first element.
FirstOf(list) == IF Len(list) = 0 THEN Undefined ELSE Defined(list[1])

\* snapshots[snapshots.length - 1]
LastOf(list) == IF Len(list) = 0 THEN Undefined ELSE Defined(list[Len(list)])

\* Lines 59-97 as a function of the request and of what the scan of each
\* generated run counts: the runs k .. n folded into the counters and the
\* snapshot list, then the returned value.
RECURSIVE SimulateFrom(_, _, _, _, _, _, _)
SimulateFrom(rate, n, counts, k, total, success, snaps) ==
  IF k <= n
  THEN LET newTotal   == total + counts[k][1]
           newSuccess == success + counts[k][2]
       IN  SimulateFrom(rate, n, counts, k + 1, newTotal, newSuccess,
             IF SnapshotDue(k, SnapshotInterval(n), n)
             THEN Append(snaps, MakeSnapshot(k, newSuccess, newTotal, rate))
             ELSE snaps)
  ELSE [snapshots |-> snaps, final |-> LastOf(snaps)]

\* The value one call of simulateBackendCall on its own returns.
StandaloneResult(rate, n, counts) == SimulateFrom(rate, n, counts, 1, 0, 0, <<>>)

(* ---------------------------- InputForm values --------------------- *)

MaxOnRunCalls == 1
MaxRefusedSubmits == 1

\* null (error: string | null), the empty optional value.
Null == <<>>

Tenth == <<1, 10>>
NineTenths == <<9, 10>>

\* Values the success-rate input can hold.
InputRates == {<<1, 20>>, Tenth, Half, NineTenths, <<19, 20>>}

\* Values the number-of-sequences input can hold.
InputCounts == {0, 1, 10000}

\* Texts the seed input can hold.
InputSeeds == {"", "42"}

\* a < b for two numbers.
Less(a, b) == a[1] * b[2] < b[1] * a[2]

\* Number(seed) for the texts of InputSeeds.
NumberOf(text) == IF text = "42" THEN 42 ELSE 0

\* seed ? Number(seed) : undefined
SeedParam(text) == IF text # "" THEN Defined(NumberOf(text)) ELSE Undefined

\* successRate < 0.1 || successRate > 0.9
RateRefused(rate) == Less(rate, Tenth) \/ Less(NineTenths, rate)

\* What a render of InputForm reads: its state and the prop
\* isComparisonMode.  The handleSubmit of that render closes over them.
FormValues ==
  [successRate      |-> inputSuccessRate,
   numSequences     |-> inputNumSequences,
   seed             |-> inputSeed,
   isComparisonMode |-> isComparisonMode]

\* useState initial values of InputForm; isComparisonMode of App; the
\* listener the keyboard effect registers after the first render.
FormInitial ==
  /\ inputSuccessRate = Half
  /\ inputNumSequences = 10000
  /\ inputSeed = ""
  /\ error = Null
  /\ isComparisonMode = FALSE
  /\ onRunCalls = 0
  /\ onRunParams = Undefined
  /\ refusedSubmits = 0
  /\ keyListener = FormValues
  /\ comparisonRun1 = [successRate |-> <<3, 10>>, numSequences |-> 10000,
                       seed |-> ""]
  /\ comparisonRun2 = [successRate |-> <<7, 10>>, numSequences |-> 10000,
                       seed |-> ""]
  /\ onCompareCalls = 0
  /\ onCompareParams = Undefined

(* ---------------------------- initial state --------------------------- *)

Init ==
  /\ successRate \in Rates
  /\ seed \in Seeds
  /\ numSequences \in 0 .. MaxCheckpointSequences
  /\ (Draws(successRate) = {0, 1} => numSequences <= MaxSequences)
  /\ pc = "call"
  /\ snapshots = <<>>
  /\ snapshotInterval = 0
  /\ streakTotal = 0
  /\ streakSuccess = 0
  /\ seqNum = 0
  /\ sequence = NoSequence
  /\ i = 0
  /\ windows = {}
  /\ totalAtRunStart = 0
  /\ successAtRunStart = 0
  /\ returned = <<>>
  /\ visited = <<>>
  /\ drawnCounts = <<>>
  /\ callIndex = 0
  /\ run1 = Undefined
  /\ run2 = Undefined
  /\ appSnapshots = <<>>
  /\ final = Undefined
  /\ loading = FALSE
  /\ comparisonResults = Undefined
  /\ currentStep = 0
  /\ isAnimating = FALSE
  /\ experimentHistory = <<>>
  /\ pending = <<>>
  /\ started = 0
  /\ clock = 0
  /\ comparisonArrivals = <<>>
  /\ latestRun = [id |-> 0, results |-> Undefined]
  /\ FormInitial

(* ---------------------------- actions --------------------------------- *)

\* Variant of Start: the snapshots array is shared by the calls instead of
\* being created by each.
StartSharedSnapshots ==
  /\ pc = "call"
  /\ snapshots' = IF returned = <<>> THEN <<>>
                  ELSE returned[Len(returned)].snapshots
  /\ snapshotInterval' = SnapshotInterval(numSequences)
  /\ streakTotal' = 0
  /\ streakSuccess' = 0
  /\ seqNum' = 1
  /\ drawnCounts' = <<>>
  /\ pc' = "loop"
  /\ UNCHANGED <<params, sequence, i, windows, totalAtRunStart,
                 successAtRunStart, returned, visited, compare, app, remote,
                 form>>

\* Lines 49-66: destructure params, create the locals, enter the outer loop.
Start ==
  /\ pc = "call"
  /\ snapshots' = <<>>
  /\ snapshotInterval' = SnapshotInterval(numSequences)
  /\ streakTotal' = 0
  /\ streakSuccess' = 0
  /\ seqNum' = 1
  /\ drawnCounts' = <<>>
  /\ pc' = "loop"
  /\ UNCHANGED <<params, sequence, i, windows, totalAtRunStart,
                 successAtRunStart, returned, visited, compare, app, remote,
                 form>>

\* Lines 66-73: seqNum <= numSequences, generate the run, enter the scanner.
Generate ==
  /\ pc = "loop"
  /\ seqNum <= numSequences
  /\ sequence' \in Runs(successRate)
  /\ i' = 0
  /\ windows' = {}
  /\ totalAtRunStart' = streakTotal
  /\ successAtRunStart' = streakSuccess
  /\ visited' = <<>>
  /\ drawnCounts' = Append(drawnCounts, ScanCount(sequence'))
  /\ pc' = "scan"
  /\ UNCHANGED <<params, snapshots, snapshotInterval, streakTotal,
                 streakSuccess, seqNum, returned, compare, app, remote,
                 form>>

\* Variant of Scan: the scan runs to the last pair of the run and counts a
\* pair that has no follower as an occurrence whose follower failed.
ScanOpenTail ==
  /\ pc = "scan"
  /\ IF i < TrialCount - 1
     THEN /\ IF IsPair(sequence, i)
             THEN /\ streakTotal' = streakTotal + 1
                  /\ streakSuccess' =
                       IF HasFollower(i) /\ sequence[i + 2] = 1
                       THEN streakSuccess + 1 ELSE streakSuccess
                  /\ windows' = windows \cup {i}
             ELSE UNCHANGED <<streakTotal, streakSuccess, windows>>
          /\ i' = NextIndex(i, IsPair(sequence, i))
          /\ visited' = Append(visited, i)
          /\ pc' = "scan"
     ELSE /\ pc' = "checkpoint"
          /\ UNCHANGED <<streakTotal, streakSuccess, windows, i, visited>>
  /\ UNCHANGED <<params, snapshots, snapshotInterval, seqNum, sequence,
                 totalAtRunStart, successAtRunStart, returned, drawnCounts,
                 compare, app, remote,
                 form>>

\* Lines 73-83: one test of the scanner loop: an iteration (body and i++)
\* or the exit.
Scan ==
  /\ pc = "scan"
  /\ IF ScanContinues(i)
     THEN /\ IF IsPair(sequence, i) /\ HasFollower(i)
             THEN LET counted ==
                        CountOccurrence(streakTotal, streakSuccess,
                                        sequence[i + 2])
                  IN  /\ streakTotal' = counted[1]
                      /\ streakSuccess' = counted[2]
                      /\ windows' = windows \cup {i}
             ELSE UNCHANGED <<streakTotal, streakSuccess, windows>>
          /\ i' = NextIndex(i, IsPair(sequence, i))
          /\ visited' = Append(visited, i)
          /\ pc' = "scan"
     ELSE /\ pc' = "checkpoint"
          /\ UNCHANGED <<streakTotal, streakSuccess, windows, i, visited>>
  /\ UNCHANGED <<params, snapshots, snapshotInterval, seqNum, sequence,
                 totalAtRunStart, successAtRunStart, returned, drawnCounts,
                 compare, app, remote,
                 form>>

\* Variant of Checkpoint: the counters restart after every snapshot.
CheckpointResetting ==
  /\ pc = "checkpoint"
  /\ IF SnapshotDue(seqNum, snapshotInterval, numSequences)
     THEN /\ snapshots' =
               Append(snapshots,
                      MakeSnapshot(seqNum, streakSuccess, streakTotal,
                                   successRate))
          /\ streakTotal' = 0
          /\ streakSuccess' = 0
     ELSE UNCHANGED <<snapshots, streakTotal, streakSuccess>>
  /\ seqNum' = seqNum + 1
  /\ pc' = "loop"
  /\ UNCHANGED <<params, snapshotInterval, sequence, i, windows,
                 totalAtRunStart, successAtRunStart, returned, visited,
                 drawnCounts, compare, app, remote,
                 form>>

\* Variant of Checkpoint: the run counter advances by two.
CheckpointSkipsARun ==
  /\ pc = "checkpoint"
  /\ snapshots' =
       IF SnapshotDue(seqNum, snapshotInterval, numSequences)
       THEN Append(snapshots,
                   MakeSnapshot(seqNum, streakSuccess, streakTotal, successRate))
       ELSE snapshots
  /\ seqNum' = seqNum + 2
  /\ pc' = "loop"
  /\ UNCHANGED <<params, snapshotInterval, streakTotal, streakSuccess,
                 sequence, i, windows, totalAtRunStart, successAtRunStart,
                 returned, visited, drawnCounts, compare, app, remote,
                 form>>

\* Lines 85-95 and the seqNum++ of line 66.
Checkpoint ==
  /\ pc = "checkpoint"
  /\ snapshots' =
       IF SnapshotDue(seqNum, snapshotInterval, numSequences)
       THEN Append(snapshots,
                   MakeSnapshot(seqNum, streakSuccess, streakTotal, successRate))
       ELSE snapshots
  /\ seqNum' = seqNum + 1
  /\ pc' = "loop"
  /\ UNCHANGED <<params, snapshotInterval, streakTotal, streakSuccess,
                 sequence, i, windows, totalAtRunStart, successAtRunStart,
                 returned, visited, drawnCounts, compare, app, remote,
                 form>>

\* Line 97, after the outer loop ends: the locals die with the call.
Return ==
  /\ pc = "loop"
  /\ ~(seqNum <= numSequences)
  /\ returned' = Append(returned,
                        [snapshots |-> snapshots, final |-> LastOf(snapshots)])
  /\ pc' = "done"
  /\ snapshots' = <<>>
  /\ snapshotInterval' = 0
  /\ streakTotal' = 0
  /\ streakSuccess' = 0
  /\ seqNum' = 0
  /\ sequence' = NoSequence
  /\ i' = 0
  /\ windows' = {}
  /\ totalAtRunStart' = 0
  /\ successAtRunStart' = 0
  /\ visited' = <<>>
  /\ drawnCounts' = <<>>
  /\ UNCHANGED <<params, compare, app, remote,
                 form>>

\* The caller invokes simulateBackendCall again with the same params
\* (handleRun, line 109, on the next click of Run).
Invoke ==
  /\ pc = "done"
  /\ Len(returned) < MaxInvocations
  /\ pc' = "call"
  /\ UNCHANGED <<params, locals, returned, compare, app, remote,
                 form>>

\* One invocation of simulateBackendCall.
Next ==
  \/ Start
  \/ Generate
  \/ Scan
  \/ Checkpoint
  \/ Return

Spec == Init /\ [][Next]_vars

\* One invocation that keeps running: simulateBackendCall has no await, so
\* once called its statements execute one after the other to the end.
SpecRunning == Init /\ [][Next]_vars /\ WF_vars(Next)

\* Repeated invocations with one request.
InitRepeat == Init /\ numSequences <= MaxRepeatSequences

NextRepeat ==
  \/ Start
  \/ Generate
  \/ Scan
  \/ Checkpoint
  \/ Return
  \/ Invoke

SpecRepeat == InitRepeat /\ [][NextRepeat]_vars

(* ---------------------------- comparison ------------------------------ *)

\* The requests InputForm.handleCompare passes as run1 and run2.
CompareRequests ==
  [successRate : {Half}, numSequences : 0 .. MaxCompareSequences,
   seed : {Undefined}]

\* App before "Run Comparison" is clicked: no call is running.
InitCompare ==
  /\ run1 \in {Defined(r) : r \in CompareRequests}
  /\ run2 \in {Defined(r) : r \in CompareRequests}
  /\ run1[1].numSequences + run2[1].numSequences <= MaxCompareTotal
  /\ callIndex = 0
  /\ pc = "idle"
  /\ successRate = <<0, 1>>
  /\ numSequences = 0
  /\ seed = Undefined
  /\ snapshots = <<>>
  /\ snapshotInterval = 0
  /\ streakTotal = 0
  /\ streakSuccess = 0
  /\ seqNum = 0
  /\ sequence = NoSequence
  /\ i = 0
  /\ windows = {}
  /\ totalAtRunStart = 0
  /\ successAtRunStart = 0
  /\ returned = <<>>
  /\ visited = <<>>
  /\ drawnCounts = <<>>
  /\ appSnapshots = <<>>
  /\ final = Undefined
  /\ loading = FALSE
  /\ comparisonResults = Undefined
  /\ currentStep = 0
  /\ isAnimating = FALSE
  /\ experimentHistory = <<>>
  /\ pending = <<>>
  /\ started = 0
  /\ clock = 0
  /\ comparisonArrivals = <<>>
  /\ latestRun = [id |-> 0, results |-> Undefined]
  /\ FormInitial

\* handleCompare, lines 129-135: the state updates before the try block and
\* the call simulateBackendCall(params.run1).  returned collects the values
\* the calls of this handleCompare return.
CompareBegin ==
  /\ pc = "idle"
  /\ callIndex = 0
  /\ loading' = TRUE
  /\ comparisonResults' = Undefined
  /\ successRate' = run1[1].successRate
  /\ numSequences' = run1[1].numSequences
  /\ seed' = run1[1].seed
  /\ callIndex' = 1
  /\ returned' = <<>>
  /\ pc' = "call"
  /\ UNCHANGED <<locals, run1, run2, appSnapshots, final, currentStep,
                 isAnimating, experimentHistory, remote,
                 form>>

\* handleCompare, line 136: the first call has returned its promise, the
\* second element of the array is evaluated: simulateBackendCall(params.run2).
CompareSecondCall ==
  /\ pc = "done"
  /\ callIndex = 1
  /\ successRate' = run2[1].successRate
  /\ numSequences' = run2[1].numSequences
  /\ seed' = run2[1].seed
  /\ callIndex' = 2
  /\ pc' = "call"
  /\ UNCHANGED <<locals, returned, run1, run2, app, remote,
                 form>>

\* handleCompare, lines 134-153: Promise.all resolves with the two results
\* in the order of the array; the state updates and the finally block.
CompareFinish ==
  /\ pc = "done"
  /\ callIndex = 2
  /\ comparisonResults' = Defined([run1 |-> returned[1], run2 |-> returned[2]])
  /\ appSnapshots' = returned[1].snapshots
  /\ final' = returned[1].final
  /\ currentStep' = 0
  /\ loading' = FALSE
  /\ callIndex' = 0
  /\ pc' = "idle"
  /\ UNCHANGED <<params, locals, returned, run1, run2, isAnimating,
                 experimentHistory, remote,
                 form>>

NextCompare ==
  \/ CompareBegin
  \/ Start
  \/ Generate
  \/ Scan
  \/ Checkpoint
  \/ Return
  \/ CompareSecondCall
  \/ CompareFinish

SpecCompare == InitCompare /\ [][NextCompare]_vars

(* ---------------------------- remote backend --------------------------- *)
(* The App of src/unnamed/part_003: handleRun and handleCompare await      *)
(* callBackend, a fetch that resolves or rejects at any later time.        *)

\* The params handleRun and handleCompare are called with.
RemoteRequests ==
  [successRate : {Half}, numSequences : 1 .. 2, seed : {Undefined}]

\* A snapshot list of a response body: n snapshots.
ResponseSnapshots(n) ==
  [j \in 1 .. n |->
     [sequences  |-> j,
      estimate   |-> Half,
      input_rate |-> Half,
      difference |-> <<0, 1>>]]

\* Lengths of data.snapshots in the response bodies considered.
ResponseLengths == {0, 1, 2}

\* callBackend, lines 92-98: { snapshots: data.snapshots || [], final:
\* data.final } for the response bodies the backend may send.
BackendResponses ==
  {[snapshots |-> ResponseSnapshots(n),
    final     |-> LastOf(ResponseSnapshots(n))] :
     n \in ResponseLengths}

\* The App before any handler has run; no simulateBackendCall exists.
InitRemote ==
  /\ pc = "idle"
  /\ successRate = <<0, 1>>
  /\ numSequences = 0
  /\ seed = Undefined
  /\ snapshots = <<>>
  /\ snapshotInterval = 0
  /\ streakTotal = 0
  /\ streakSuccess = 0
  /\ seqNum = 0
  /\ sequence = NoSequence
  /\ i = 0
  /\ windows = {}
  /\ totalAtRunStart = 0
  /\ successAtRunStart = 0
  /\ returned = <<>>
  /\ visited = <<>>
  /\ drawnCounts = <<>>
  /\ callIndex = 0
  /\ run1 = Undefined
  /\ run2 = Undefined
  /\ appSnapshots = <<>>
  /\ final = Undefined
  /\ loading = FALSE
  /\ comparisonResults = Undefined
  /\ currentStep = 0
  /\ isAnimating = FALSE
  /\ experimentHistory = <<>>
  /\ pending = <<>>
  /\ started = 0
  /\ clock = 0
  /\ comparisonArrivals = <<>>
  /\ latestRun = [id |-> 0, results |-> Undefined]
  /\ FormInitial

\* pending without its t-th element.
Without(list, t) == SubSeq(list, 1, t - 1) \o SubSeq(list, t + 1, Len(list))

\* Variant of Prepend: [entry, ...prev.slice(0, 10)].
PrependToTen(entry, prev) ==
  <<entry>> \o SubSeq(prev, 1, IF Len(prev) < 10 THEN Len(prev) ELSE 10)

\* [entry, ...prev.slice(0, 9)]
Prepend(entry, prev) ==
  <<entry>> \o SubSeq(prev, 1, IF Len(prev) < 9 THEN Len(prev) ELSE 9)

\* handleRun, lines 114-122: the state updates before the try block and the
\* call of callBackend, whose promise is awaited.
HandleRun(request) ==
  /\ loading' = TRUE
  /\ appSnapshots' = <<>>
  /\ final' = Undefined
  /\ currentStep' = 0
  /\ isAnimating' = FALSE
  /\ started' = started + 1
  /\ pending' = Append(pending, [id      |-> started + 1,
                                 kind    |-> "run",
                                 args    |-> <<request>>,
                                 arrived |-> <<>>])
  /\ latestRun' = [id |-> started + 1, results |-> Undefined]
  /\ UNCHANGED <<engine, comparisonResults, experimentHistory, clock,
                 comparisonArrivals,
                 form>>

\* handleRun, lines 122-131 and 137-139: callBackend resolved with results.
RunResolved(t, results) ==
  /\ t \in 1 .. Len(pending)
  /\ pending[t].kind = "run"
  /\ appSnapshots' = results.snapshots
  /\ final' = results.final
  /\ experimentHistory' =
       Prepend([params    |-> pending[t].args[1],
                results   |-> results,
                timestamp |-> clock],
               experimentHistory)
  /\ loading' = FALSE
  /\ pending' = Without(pending, t)
  /\ clock' = clock + 1
  /\ latestRun' = IF pending[t].id = latestRun.id
                  THEN [latestRun EXCEPT !.results = Defined(results)]
                  ELSE latestRun
  /\ UNCHANGED <<engine, comparisonResults, currentStep, isAnimating, started,
                 comparisonArrivals,
                 form>>

\* handleRun, lines 133-139: callBackend threw; the alert and the finally
\* block.
RunRejected(t) ==
  /\ t \in 1 .. Len(pending)
  /\ pending[t].kind = "run"
  /\ loading' = FALSE
  /\ pending' = Without(pending, t)
  /\ UNCHANGED <<engine, latestRun, appSnapshots, final, comparisonResults, currentStep,
                 isAnimating, experimentHistory, started, clock, comparisonArrivals,
                 form>>

\* handleCompare, lines 143-151: the state updates before the try block and
\* the two calls of callBackend, whose promises Promise.all awaits.
HandleCompare(request1, request2) ==
  /\ loading' = TRUE
  /\ comparisonResults' = Undefined
  /\ started' = started + 1
  /\ pending' = Append(pending, [id      |-> started + 1,
                                 kind    |-> "compare",
                                 args    |-> <<request1, request2>>,
                                 arrived |-> <<>>])
  /\ comparisonArrivals' = <<>>
  /\ UNCHANGED <<engine, latestRun, appSnapshots, final, currentStep, isAnimating,
                 experimentHistory, clock, form>>

\* Variant of ResultOfCall: the results in the order the calls completed.
ResultOfCallByArrival(arrived, call) == arrived[call].results

\* The element Promise.all puts at the position of a call: the value that
\* call's promise resolved with, whenever it resolved.
ResultOfCall(arrived, call) ==
  (CHOOSE a \in {arrived[j] : j \in 1 .. Len(arrived)} : a.call = call).results

\* Variant of CompareCallResolved: the second run becomes the main display.
CompareCallResolvedShowsSecond(t, call, results) ==
  /\ t \in 1 .. Len(pending)
  /\ pending[t].kind = "compare"
  /\ call \in {1, 2}
  /\ \A j \in 1 .. Len(pending[t].arrived) : pending[t].arrived[j].call # call
  /\ LET arrived == Append(pending[t].arrived,
                           [call |-> call, results |-> results])
     IN  IF Len(arrived) = 2
         THEN /\ comparisonResults' =
                   Defined([run1 |-> ResultOfCall(arrived, 1),
                            run2 |-> ResultOfCall(arrived, 2)])
              /\ appSnapshots' = ResultOfCall(arrived, 2).snapshots
              /\ final' = ResultOfCall(arrived, 2).final
              /\ currentStep' = 0
              /\ loading' = FALSE
              /\ pending' = Without(pending, t)
              /\ comparisonArrivals' = arrived
         ELSE /\ pending' = [pending EXCEPT ![t].arrived = arrived]
              /\ UNCHANGED <<appSnapshots, final, loading, comparisonResults,
                             currentStep, comparisonArrivals>>
  /\ UNCHANGED <<engine, latestRun, isAnimating, experimentHistory, started, clock,
                 form>>

\* handleCompare, lines 148-161 and 166-168: one of the two calls of
\* callBackend resolved.  Promise.all resolves when both have; then the
\* state updates and the finally block run.
CompareCallResolved(t, call, results) ==
  /\ t \in 1 .. Len(pending)
  /\ pending[t].kind = "compare"
  /\ call \in {1, 2}
  /\ \A j \in 1 .. Len(pending[t].arrived) : pending[t].arrived[j].call # call
  /\ LET arrived == Append(pending[t].arrived,
                           [call |-> call, results |-> results])
     IN  IF Len(arrived) = 2
         THEN /\ comparisonResults' =
                   Defined([run1 |-> ResultOfCall(arrived, 1),
                            run2 |-> ResultOfCall(arrived, 2)])
              /\ appSnapshots' = ResultOfCall(arrived, 1).snapshots
              /\ final' = ResultOfCall(arrived, 1).final
              /\ currentStep' = 0
              /\ loading' = FALSE
              /\ pending' = Without(pending, t)
              /\ comparisonArrivals' = arrived
         ELSE /\ pending' = [pending EXCEPT ![t].arrived = arrived]
              /\ UNCHANGED <<appSnapshots, final, loading, comparisonResults,
                             currentStep, comparisonArrivals>>
  /\ UNCHANGED <<engine, latestRun, isAnimating, experimentHistory, started, clock,
                 form>>

\* handleCompare, lines 163-168: one of the two calls of callBackend threw:
\* Promise.all rejects at once, the alert and the finally block run; what
\* the other call returns later is dropped.
CompareCallRejected(t, call) ==
  /\ t \in 1 .. Len(pending)
  /\ pending[t].kind = "compare"
  /\ call \in {1, 2}
  /\ \A j \in 1 .. Len(pending[t].arrived) : pending[t].arrived[j].call # call
  /\ loading' = FALSE
  /\ pending' = Without(pending, t)
  /\ UNCHANGED <<engine, latestRun, appSnapshots, final, comparisonResults, currentStep,
                 isAnimating, experimentHistory, started, clock, comparisonArrivals,
                 form>>

\* The handlers may start while earlier ones await their responses; the
\* number of starts and of handlers in flight is capped.
MayStart == started < MaxStarts /\ Len(pending) < MaxPending

\* A click of 'Run Analysis' that reaches handleRun.
RunStarts(request) == MayStart /\ HandleRun(request)

\* A click of 'Run Comparison' that reaches handleCompare.
CompareStarts(request1, request2) ==
  MayStart /\ HandleCompare(request1, request2)

NextRemote ==
  \/ \E request \in RemoteRequests : RunStarts(request)
  \/ \E t \in 1 .. MaxPending : \E results \in BackendResponses :
       RunResolved(t, results)
  \/ \E t \in 1 .. MaxPending : RunRejected(t)
  \/ \E request1 \in RemoteRequests : \E request2 \in RemoteRequests :
       CompareStarts(request1, request2)
  \/ \E t \in 1 .. MaxPending : \E call \in {1, 2} :
       \E results \in BackendResponses : CompareCallResolved(t, call, results)
  \/ \E t \in 1 .. MaxPending : \E call \in {1, 2} : CompareCallRejected(t, call)

SpecRemote == InitRemote /\ [][NextRemote]_vars

\* Single runs only, started while earlier ones may be in flight.
NextRuns ==
  \/ \E request \in RemoteRequests : RunStarts(request)
  \/ \E t \in 1 .. MaxPending : \E results \in BackendResponses :
       RunResolved(t, results)
  \/ \E t \in 1 .. MaxPending : RunRejected(t)

SpecRuns == InitRemote /\ [][NextRuns]_vars

(* ---------------------------- ResultsDisplay -------------------------- *)

\* onStepChange(step), that is setCurrentStep(step) of the App.
StepChange(step) ==
  /\ currentStep' = step
  /\ UNCHANGED <<engine, appSnapshots, final, loading, comparisonResults,
                 isAnimating, experimentHistory, remote, form>>

\* The controls of Header.tsx lines 387-420; with no snapshots the
\* component returns a placeholder (lines 349-357) and has no controls.
StepStart ==
  /\ appSnapshots # <<>>
  /\ currentStep # 0
  /\ StepChange(0)

StepPrevious ==
  /\ appSnapshots # <<>>
  /\ currentStep # 0
  /\ StepChange(Max(0, currentStep - 1))

StepNext ==
  /\ appSnapshots # <<>>
  /\ currentStep # Len(appSnapshots) - 1
  /\ StepChange(Min(Len(appSnapshots) - 1, currentStep + 1))

StepEnd ==
  /\ appSnapshots # <<>>
  /\ currentStep # Len(appSnapshots) - 1
  /\ StepChange(Len(appSnapshots) - 1)

\* onToggleAnimation of the App, part_003 line 425.
ToggleAnimation ==
  /\ isAnimating' = ~ isAnimating
  /\ UNCHANGED <<engine, appSnapshots, final, loading, comparisonResults,
                 currentStep, experimentHistory, remote, form>>

\* The interval callback of the animation effect, Header.tsx lines 131-139.
\* The effect depends on currentStep and snapshots.length, so the interval
\* of the latest render is the one that fires.
AnimationTick ==
  /\ isAnimating
  /\ Len(appSnapshots) > 0
  /\ StepChange(Min(currentStep + 1, Len(appSnapshots) - 1))

NextDisplay ==
  \/ NextRemote
  \/ StepStart
  \/ StepPrevious
  \/ StepNext
  \/ StepEnd
  \/ ToggleAnimation
  \/ AnimationTick

\* The App with its results display.
SpecDisplay == InitRemote /\ [][NextDisplay]_vars

(* ---------------------------- many single runs ------------------------ *)

MaxHistoryStarts == 12

\* The request and the response of the runs that fill the history.
HistoryRequest == [successRate |-> Half, numSequences |-> 1, seed |-> Undefined]
HistoryResponses == {r \in BackendResponses : Len(r.snapshots) = 1}

\* Single runs only, more of them than the history keeps.
HistoryRunStarts ==
  /\ started < MaxHistoryStarts
  /\ Len(pending) < MaxPending
  /\ HandleRun(HistoryRequest)

NextHistory ==
  \/ HistoryRunStarts
  \/ \E t \in 1 .. MaxPending : \E results \in HistoryResponses :
       RunResolved(t, results)
  \/ \E t \in 1 .. MaxPending : RunRejected(t)

SpecHistory == InitRemote /\ [][NextHistory]_vars

(* ---------------------------- InputForm ---------------------------- *)

\* onChange of the success-rate input: setSuccessRate(Number(e.target.value)).
SetSuccessRate(value) ==
  /\ inputSuccessRate' = value
  /\ UNCHANGED <<engine, app, remote, keyListener, comparisonForm, inputNumSequences, inputSeed, error,
                 isComparisonMode, onRunCalls, onRunParams, refusedSubmits>>

\* onChange of the sequences input: setNumSequences(Number(e.target.value)).
SetNumSequences(value) ==
  /\ inputNumSequences' = value
  /\ UNCHANGED <<engine, app, remote, keyListener, comparisonForm, inputSuccessRate, inputSeed, error,
                 isComparisonMode, onRunCalls, onRunParams, refusedSubmits>>

\* onChange of the seed input: setSeed(e.target.value).
SetSeed(text) ==
  /\ inputSeed' = text
  /\ UNCHANGED <<engine, app, remote, keyListener, comparisonForm, inputSuccessRate, inputNumSequences,
                 error, isComparisonMode, onRunCalls, onRunParams,
                 refusedSubmits>>

\* onToggleComparisonMode: setIsComparisonMode(!isComparisonMode).  The App
\* renders, its inline callbacks are new functions, and the keyboard effect
\* of InputForm (deps [onToggleComparisonMode, onToggleAnimation]) registers
\* a listener with the handleSubmit of this render.
ToggleComparisonMode ==
  /\ isComparisonMode' = ~ isComparisonMode
  /\ keyListener' = [FormValues EXCEPT !.isComparisonMode = ~ isComparisonMode]
  /\ UNCHANGED <<engine, app, remote, comparisonForm, inputSuccessRate, inputNumSequences,
                 inputSeed, error, onRunCalls, onRunParams, refusedSubmits>>

\* Variant of HandleSubmit: setError(null) is missing.
HandleSubmitKeepsError ==
  /\ IF RateRefused(inputSuccessRate)
     THEN /\ refusedSubmits < MaxRefusedSubmits
          /\ error' = Defined("Success rate must be between 0.1 and 0.9")
          /\ refusedSubmits' = refusedSubmits + 1
          /\ UNCHANGED <<onRunCalls, onRunParams, keyListener>>
     ELSE IF inputNumSequences < 1
     THEN /\ refusedSubmits < MaxRefusedSubmits
          /\ error' = Defined("Number of sequences must be at least 1")
          /\ refusedSubmits' = refusedSubmits + 1
          /\ UNCHANGED <<onRunCalls, onRunParams, keyListener>>
     ELSE /\ onRunCalls < MaxOnRunCalls
          /\ error' = error
          /\ onRunCalls' = onRunCalls + 1
          /\ onRunParams' = Defined([successRate  |-> inputSuccessRate,
                                     numSequences |-> inputNumSequences,
                                     seed         |-> SeedParam(inputSeed),
                                     isComparison |-> isComparisonMode])
          /\ keyListener' = FormValues
          /\ UNCHANGED refusedSubmits
  /\ UNCHANGED <<engine, app, remote, comparisonForm, inputSuccessRate, inputNumSequences,
                 inputSeed, isComparisonMode>>

\* handleSubmit, part_002 lines 58-75: the two checks, each ending the
\* handler with setError(message); otherwise setError(null) and onRun.
\* onRun is the App's handleRun: it sets App state, the App renders and the
\* keyboard effect registers a new listener.
HandleSubmit ==
  /\ IF RateRefused(inputSuccessRate)
     THEN /\ refusedSubmits < MaxRefusedSubmits
          /\ error' = Defined("Success rate must be between 0.1 and 0.9")
          /\ refusedSubmits' = refusedSubmits + 1
          /\ UNCHANGED <<onRunCalls, onRunParams, keyListener>>
     ELSE IF inputNumSequences < 1
     THEN /\ refusedSubmits < MaxRefusedSubmits
          /\ error' = Defined("Number of sequences must be at least 1")
          /\ refusedSubmits' = refusedSubmits + 1
          /\ UNCHANGED <<onRunCalls, onRunParams, keyListener>>
     ELSE /\ onRunCalls < MaxOnRunCalls
          /\ error' = Null
          /\ onRunCalls' = onRunCalls + 1
          /\ onRunParams' = Defined([successRate  |-> inputSuccessRate,
                                     numSequences |-> inputNumSequences,
                                     seed         |-> SeedParam(inputSeed),
                                     isComparison |-> isComparisonMode])
          /\ keyListener' = FormValues
          /\ UNCHANGED refusedSubmits
  /\ UNCHANGED <<engine, app, remote, comparisonForm, inputSuccessRate, inputNumSequences,
                 inputSeed, isComparisonMode>>

NextForm ==
  \/ \E value \in InputRates : SetSuccessRate(value)
  \/ \E value \in InputCounts : SetNumSequences(value)
  \/ \E text \in InputSeeds : SetSeed(text)
  \/ ToggleComparisonMode
  \/ HandleSubmit

\* The InputForm on its own, with the App that renders it at rest.
SpecForm == InitRemote /\ [][NextForm]_vars

(* ---------------------------- keyboard shortcut ----------------------- *)

\* Ctrl+Enter or Cmd+Enter, part_002 lines 34-41: the registered listener
\* calls the handleSubmit it closes over, which reads the form values of the
\* render that created it and runs lines 58-75 on them.
KeyboardSubmit ==
  /\ IF RateRefused(keyListener.successRate)
     THEN /\ refusedSubmits < MaxRefusedSubmits
          /\ error' = Defined("Success rate must be between 0.1 and 0.9")
          /\ refusedSubmits' = refusedSubmits + 1
          /\ UNCHANGED <<onRunCalls, onRunParams, keyListener>>
     ELSE IF keyListener.numSequences < 1
     THEN /\ refusedSubmits < MaxRefusedSubmits
          /\ error' = Defined("Number of sequences must be at least 1")
          /\ refusedSubmits' = refusedSubmits + 1
          /\ UNCHANGED <<onRunCalls, onRunParams, keyListener>>
     ELSE /\ onRunCalls < MaxOnRunCalls
          /\ error' = Null
          /\ onRunCalls' = onRunCalls + 1
          /\ onRunParams' =
               Defined([successRate  |-> keyListener.successRate,
                        numSequences |-> keyListener.numSequences,
                        seed         |-> SeedParam(keyListener.seed),
                        isComparison |-> keyListener.isComparisonMode])
          /\ keyListener' = FormValues
          /\ UNCHANGED refusedSubmits
  /\ UNCHANGED <<engine, app, remote, comparisonForm, inputSuccessRate,
                 inputNumSequences, inputSeed, isComparisonMode>>

\* The App renders for a reason outside the form (a response arrives, the
\* animation advances): InputForm renders with new callback props and the
\* keyboard effect registers the listener of this render.
AppRenders ==
  /\ keyListener' = FormValues
  /\ UNCHANGED <<engine, app, remote, comparisonForm, inputSuccessRate,
                 inputNumSequences, inputSeed, error, isComparisonMode,
                 onRunCalls, onRunParams, refusedSubmits>>

NextKeyboard ==
  \/ NextForm
  \/ KeyboardSubmit
  \/ AppRenders

\* The InputForm with its keyboard shortcut.
SpecKeyboard == InitRemote /\ [][NextKeyboard]_vars

(* ---------------------------- comparison cards ------------------------ *)

MaxOnCompareCalls == 1

\* Values the sliders and the seed input of the 'Run 2 Settings' card can
\* hold.
Run2Rates == {Tenth, <<7, 10>>}
Run2Counts == {100, 10000}

\* The parameters handleCompare sends for one run: { ...run, seed:
\* run.seed ? Number(run.seed) : undefined }.
RunParam(run) ==
  [successRate  |-> run.successRate,
   numSequences |-> run.numSequences,
   seed         |-> SeedParam(run.seed)]

\* 'Run 2 Settings', lines 303, 319, 329: setComparisonRun2({...comparisonRun2,
\* field: value}); the card is rendered in comparison mode only.
SetRun2SuccessRate(value) ==
  /\ isComparisonMode
  /\ comparisonRun2' = [comparisonRun2 EXCEPT !.successRate = value]
  /\ UNCHANGED <<engine, app, remote, inputSuccessRate, inputNumSequences,
                 inputSeed, error, isComparisonMode, onRunCalls, onRunParams,
                 refusedSubmits, keyListener, comparisonRun1, onCompareCalls,
                 onCompareParams>>

SetRun2NumSequences(value) ==
  /\ isComparisonMode
  /\ comparisonRun2' = [comparisonRun2 EXCEPT !.numSequences = value]
  /\ UNCHANGED <<engine, app, remote, inputSuccessRate, inputNumSequences,
                 inputSeed, error, isComparisonMode, onRunCalls, onRunParams,
                 refusedSubmits, keyListener, comparisonRun1, onCompareCalls,
                 onCompareParams>>

SetRun2Seed(text) ==
  /\ isComparisonMode
  /\ comparisonRun2' = [comparisonRun2 EXCEPT !.seed = text]
  /\ UNCHANGED <<engine, app, remote, inputSuccessRate, inputNumSequences,
                 inputSeed, error, isComparisonMode, onRunCalls, onRunParams,
                 refusedSubmits, keyListener, comparisonRun1, onCompareCalls,
                 onCompareParams>>

\* InputForm.handleCompare, lines 77-82, on a click of 'Run Comparison'
\* (rendered in comparison mode only).  onCompare is the App's
\* handleCompare: it sets App state, the App renders and the keyboard effect
\* registers a new listener.
FormHandleCompare ==
  /\ isComparisonMode
  /\ onCompareCalls < MaxOnCompareCalls
  /\ onCompareCalls' = onCompareCalls + 1
  /\ onCompareParams' = Defined([run1 |-> RunParam(comparisonRun1),
                                 run2 |-> RunParam(comparisonRun2)])
  /\ keyListener' = FormValues
  /\ UNCHANGED <<engine, app, remote, inputSuccessRate, inputNumSequences,
                 inputSeed, error, isComparisonMode, onRunCalls, onRunParams,
                 refusedSubmits, comparisonRun1, comparisonRun2>>

NextComparisonForm ==
  \/ \E value \in InputRates : SetSuccessRate(value)
  \/ \E value \in InputCounts : SetNumSequences(value)
  \/ \E text \in InputSeeds : SetSeed(text)
  \/ ToggleComparisonMode
  \/ \E value \in Run2Rates : SetRun2SuccessRate(value)
  \/ \E value \in Run2Counts : SetRun2NumSequences(value)
  \/ \E text \in InputSeeds : SetRun2Seed(text)
  \/ FormHandleCompare

\* The InputForm in its use for comparisons.
SpecComparisonForm == InitRemote /\ [][NextComparisonForm]_vars

TypeOK ==
  /\ successRate \in Rates
  /\ numSequences \in 0 .. MaxCheckpointSequences
  /\ seed \in Seeds
  /\ pc \in {"idle", "call", "loop", "scan", "checkpoint", "done"}
  /\ streakTotal \in Nat
  /\ streakSuccess \in Nat
  /\ Len(returned) <= MaxInvocations

(* ---------------------------- claims ---------------------------------- *)

Results == {returned[j] : j \in 1 .. Len(returned)}

\* Number of snapshots of list taken after run k.
TakenAfter(list, k) == Cardinality({j \in 1 .. Len(list) : list[j].sequences = k})

\* C1: for every request with numSequences >= 1 the final snapshot of every
\* returned result has sequences = numSequences.
FinalCoversAllRuns ==
  \A r \in Results :
    numSequences >= 1 =>
      /\ r.final # Undefined
      /\ r.final[1].sequences = numSequences

\* C1 witness: a result for a numSequences that is no multiple of its
\* checkpoint interval (25 runs, interval 2).
FinalCoversAllRunsWitness ==
  /\ numSequences = 25
  /\ \E r \in Results : r.final # Undefined /\ r.final[1].sequences = 25

\* C2: for every request with numSequences >= 1 the returned snapshot list
\* has at least one element and final is its last element.
SnapshotsEndWithFinal ==
  \A r \in Results :
    numSequences >= 1 =>
      /\ Len(r.snapshots) >= 1
      /\ r.final = Defined(r.snapshots[Len(r.snapshots)])

\* C2 witness: a result of random trials with two snapshots.
SnapshotsEndWithFinalWitness ==
  /\ successRate = Half
  /\ \E r \in Results : Len(r.snapshots) = 2 /\ r.final = Defined(r.snapshots[2])

\* The checkpoint rule as the specification words it.
DueAfter(k, n) == k % (IF n \div 10 >= 1 THEN n \div 10 ELSE 1) = 0 \/ k = n

\* C3: a snapshot is appended after run k exactly when k mod
\* max(1, floor(N/10)) = 0 or k = N, and never twice for one run: while the
\* invocation runs this holds of the completed runs, and it holds of every
\* returned list.
SnapshotExactlyWhenDue ==
  /\ pc \in {"loop", "scan", "checkpoint"} =>
       /\ \A k \in 1 .. numSequences :
            TakenAfter(snapshots, k) =
              IF k < seqNum /\ DueAfter(k, numSequences) THEN 1 ELSE 0
       /\ \A j \in 1 .. Len(snapshots) : snapshots[j].sequences \in 1 .. numSequences
  /\ \A r \in Results :
       /\ \A k \in 1 .. numSequences :
            TakenAfter(r.snapshots, k) =
              IF DueAfter(k, numSequences) THEN 1 ELSE 0
       /\ \A j \in 1 .. Len(r.snapshots) :
            r.snapshots[j].sequences \in 1 .. numSequences

\* C3 witness: a result whose final run is also on an interval boundary
\* (20 runs, interval 2) and was snapshotted once.
SnapshotExactlyWhenDueWitness ==
  /\ numSequences = 20
  /\ \E r \in Results : TakenAfter(r.snapshots, 20) = 1

\* C4 as claimed: at most 11 snapshots are returned.
AtMostElevenSnapshots ==
  \A r \in Results : numSequences >= 1 => Len(r.snapshots) <= 11

\* C4 amended: at most 19 snapshots are returned.
AtMostNineteenSnapshots ==
  \A r \in Results : numSequences >= 1 => Len(r.snapshots) <= 19

\* C4 witness: a result with 19 snapshots (19 runs, interval 1).
AtMostNineteenSnapshotsWitness ==
  \E r \in Results : Len(r.snapshots) = 19

\* C5: when numSequences = 10q with q >= 1 exactly 10 snapshots are
\* returned and their sequences values are q, 2q, ..., 10q in this order.
TenSnapshotsForMultiplesOfTen ==
  \A r \in Results :
    numSequences >= 1 /\ numSequences % 10 = 0 =>
      /\ Len(r.snapshots) = 10
      /\ \A m \in 1 .. 10 : r.snapshots[m].sequences = m * (numSequences \div 10)

\* C5 witness: a result for 30 runs whose snapshots are at 3, 6, ..., 30.
TenSnapshotsForMultiplesOfTenWitness ==
  /\ numSequences = 30
  /\ \E r \in Results :
       /\ Len(r.snapshots) = 10
       /\ r.snapshots[1].sequences = 3
       /\ r.snapshots[10].sequences = 30

\* C6: 0 <= streakSuccess <= streakTotal in every state of an invocation.
CountersOrdered == 0 <= streakSuccess /\ streakSuccess <= streakTotal

\* C6 witness: in the middle of a scan some followers have succeeded and
\* some have failed.
CountersOrderedWitness ==
  /\ pc = "scan"
  /\ 0 < streakSuccess
  /\ streakSuccess < streakTotal

\* C7 as claimed: two invocations with the same successRate, the same
\* numSequences and the same defined seed return the same snapshots.
SeededInvocationsAgree ==
  seed # Undefined /\ Len(returned) = 2 =>
    returned[1].snapshots = returned[2].snapshots

\* The run with successes exactly at the indices of at.
SuccessesAt(at) == [t \in 0 .. TrialCount - 1 |-> IF t \in at THEN 1 ELSE 0]

\* C8: the counted windows of one run are pairwise disjoint (two counted
\* pairs start at least 3 indices apart), and a run with successes exactly
\* at indices 0, 1, 2, 3 adds exactly 1 to streakTotal and 1 to
\* streakSuccess.
WindowsDisjoint ==
  /\ \A a \in windows : \A b \in windows : a # b => Abs(a - b) >= 3
  /\ pc = "checkpoint" /\ sequence = SuccessesAt({0, 1, 2, 3}) =>
       /\ streakTotal = totalAtRunStart + 1
       /\ streakSuccess = successAtRunStart + 1

\* C8 witness: a scanned run in which two pairs were counted.
WindowsDisjointWitness ==
  /\ pc = "checkpoint"
  /\ Cardinality(windows) = 2

\* C9: a pair is counted only when a follower exists: every counted pair
\* starts at an index <= len-3, these are the only increments of
\* streakTotal, and a run whose only successes are its last two trials
\* leaves both counters unchanged.
TailPairNotCounted ==
  /\ windows \subseteq 0 .. TrialCount - 3
  /\ pc \in {"scan", "checkpoint"} =>
       streakTotal = totalAtRunStart + Cardinality(windows)
  /\ pc = "checkpoint"
       /\ sequence = SuccessesAt({TrialCount - 2, TrialCount - 1}) =>
       /\ streakTotal = totalAtRunStart
       /\ streakSuccess = successAtRunStart

\* C9 witness: a later run whose only successes are its last two trials has
\* been scanned to its end.
TailPairNotCountedWitness ==
  /\ pc = "checkpoint"
  /\ sequence = SuccessesAt({TrialCount - 2, TrialCount - 1})
  /\ totalAtRunStart > 0

\* C10: a snapshot's estimate is streakSuccess / streakTotal of the
\* counters at the step that appends it, and 0 when streakTotal is 0.
EstimateIsRatio ==
  [][snapshots' # snapshots /\ pc = "checkpoint" =>
       /\ Len(snapshots') = Len(snapshots) + 1
       /\ LET estimate == snapshots'[Len(snapshots')].estimate
          IN  /\ estimate[2] > 0
              /\ streakTotal = 0 => estimate = <<0, 1>>
              /\ streakTotal > 0 =>
                   estimate[1] * streakTotal = streakSuccess * estimate[2]]_vars

\* C10 witness: a snapshot has just been taken with one of two followers
\* succeeded: its estimate is 1/2.
EstimateIsRatioWitness ==
  /\ pc = "loop"
  /\ streakTotal = 2
  /\ streakSuccess = 1
  /\ Len(snapshots) >= 1
  /\ snapshots[Len(snapshots)].sequences = seqNum - 1
  /\ snapshots[Len(snapshots)].estimate = <<1, 2>>

\* The snapshot lists of the state: the one under construction and the
\* returned ones.
SnapshotLists == {snapshots} \cup {r.snapshots : r \in Results}

\* C11: every snapshot has 0 <= estimate <= 1.
EstimateInUnitInterval ==
  \A list \in SnapshotLists : \A j \in 1 .. Len(list) :
    /\ list[j].estimate[2] > 0
    /\ 0 <= list[j].estimate[1]
    /\ list[j].estimate[1] <= list[j].estimate[2]

\* C11 witness: random trials returned a snapshot whose estimate is 1.
EstimateInUnitIntervalWitness ==
  /\ successRate = Half
  /\ \E r \in Results : \E j \in 1 .. Len(r.snapshots) :
       r.snapshots[j].estimate = <<1, 1>>

\* C12: every snapshot of an invocation carries input_rate = successRate of
\* the request and difference = estimate - input_rate.
DifferenceIsEstimateMinusRate ==
  \A list \in SnapshotLists : \A j \in 1 .. Len(list) :
    LET s == list[j]
    IN  /\ s.input_rate = successRate
        /\ s.difference[2] > 0
        /\ s.difference[1] * (s.estimate[2] * s.input_rate[2]) =
             (s.estimate[1] * s.input_rate[2] - s.input_rate[1] * s.estimate[2])
               * s.difference[2]

\* C12 witness: a returned snapshot with estimate 0 and rate 1/2, whose
\* difference is -1/2.
DifferenceIsEstimateMinusRateWitness ==
  \E r \in Results : \E j \in 1 .. Len(r.snapshots) :
    /\ r.snapshots[j].input_rate = Half
    /\ r.snapshots[j].estimate = <<0, 1>>
    /\ r.snapshots[j].difference = <<-1, 2>>

\* C13: sequences is strictly increasing along every snapshot list and every
\* value lies in 1 .. numSequences.
SequencesStrictlyIncreasing ==
  \A list \in SnapshotLists :
    /\ \A j \in 1 .. Len(list) : list[j].sequences \in 1 .. numSequences
    /\ \A j \in 1 .. Len(list) - 1 : list[j].sequences < list[j + 1].sequences

\* C13 witness: a returned list for 27 runs (interval 2) ending 24, 26, 27.
SequencesStrictlyIncreasingWitness ==
  /\ numSequences = 27
  /\ \E r \in Results :
       /\ Len(r.snapshots) = 14
       /\ r.snapshots[13].sequences = 26
       /\ r.snapshots[14].sequences = 27

\* C14: the counters are cumulative over the invocation: no step of the
\* running invocation decreases streakTotal or streakSuccess, the checkpoint
\* and the generation of the next run leave them unchanged, so the counters
\* of run k's snapshot include the occurrences of the runs 1 .. k.
CountersCumulative ==
  [][(pc \in {"loop", "scan", "checkpoint"}
        /\ pc' \in {"loop", "scan", "checkpoint"}) =>
       (/\ streakTotal' >= streakTotal
        /\ streakSuccess' >= streakSuccess
        /\ (pc \in {"loop", "checkpoint"} =>
              (streakTotal' = streakTotal /\ streakSuccess' = streakSuccess))
        /\ (pc = "loop" =>
              (totalAtRunStart' = streakTotal
                 /\ successAtRunStart' = streakSuccess)))]_vars

\* C14 witness: the second run's checkpoint is reached with counters that
\* hold the first run's occurrences and more, after a first snapshot.
CountersCumulativeWitness ==
  /\ pc = "checkpoint"
  /\ seqNum = 2
  /\ Len(snapshots) = 1
  /\ totalAtRunStart > 0
  /\ streakTotal > totalAtRunStart

\* The request is outside the domain of the engine: success_rate not in
\* (0, 1) or num_sequences < 1.
InvalidRequest ==
  \/ successRate[1] <= 0
  \/ successRate[1] >= successRate[2]
  \/ numSequences < 1

\* C15 as claimed: an invalid request is rejected before any run is
\* generated: the invocation creates no counters, generates no run and
\* returns no snapshot list.
InvalidRequestRejected ==
  InvalidRequest =>
    /\ pc \notin {"loop", "scan", "checkpoint"}
    /\ returned = <<>>

\* C16: the two simulations of a comparison share no mutable state: every
\* call returns what a call on its own returns for the same request and the
\* same draws, and the value run1 returned is not changed while run2 runs.
ComparisonRunsIndependent ==
  [][/\ (pc # "done" /\ pc' = "done") =>
          returned' = Append(returned,
                             StandaloneResult(successRate, numSequences,
                                              drawnCounts))
     /\ (returned # <<>> /\ returned' # <<>>) => returned'[1] = returned[1]
     /\ (callIndex = 2 /\ callIndex' = 0) =>
          (/\ comparisonResults'[1].run1 = returned[1]
           /\ comparisonResults'[1].run2 = returned[2])]_vars

\* C16 witness: both calls of a comparison ran random trials for the same
\* request and returned different non-empty results.
ComparisonRunsIndependentWitness ==
  /\ callIndex = 2
  /\ pc = "done"
  /\ run1 = run2
  /\ run1[1].successRate = Half
  /\ Len(returned) = 2
  /\ returned[1].snapshots # <<>>
  /\ returned[1] # returned[2]

\* C17: after a successful comparison comparisonResults.run1 is the result
\* of the call made with params.run1 and comparisonResults.run2 the result
\* of the call made with params.run2, whichever call completed first.
ComparisonResultsByCall ==
  comparisonResults # Undefined =>
    /\ {comparisonArrivals[j].call : j \in 1 .. Len(comparisonArrivals)}
         = {1, 2}
    /\ \A j \in 1 .. Len(comparisonArrivals) :
         LET resolved == comparisonArrivals[j]
         IN  (IF resolved.call = 1
              THEN comparisonResults[1].run1
              ELSE comparisonResults[1].run2) = resolved.results

\* C17 witness: a comparison succeeded whose second call resolved first,
\* with results different from those of the first call.
ComparisonResultsByCallWitness ==
  /\ comparisonResults # Undefined
  /\ comparisonArrivals[1].call = 2
  /\ comparisonArrivals[1].results # comparisonArrivals[2].results

\* C18 as claimed: when callBackend throws in handleRun, after handleRun
\* completes snapshots is empty, final is undefined, experimentHistory has
\* no new entry and loading is false.
FailedRunShowsNothing ==
  [][\A t \in 1 .. Len(pending) :
       RunRejected(t) =>
         /\ appSnapshots' = <<>>
         /\ final' = Undefined
         /\ experimentHistory' = experimentHistory
         /\ loading' = FALSE]_vars

\* C19: InputForm.handleSubmit calls onRun only when
\* 0.1 <= successRate <= 0.9 and numSequences >= 1, and then clears the
\* error and passes the form's values; for any other values it sets an error
\* message and does not call onRun; nothing else calls onRun.
SubmitValidates ==
  [][LET valid == /\ 10 * inputSuccessRate[1] >= inputSuccessRate[2]
                  /\ 10 * inputSuccessRate[1] <= 9 * inputSuccessRate[2]
                  /\ inputNumSequences >= 1
     IN  /\ (HandleSubmit /\ valid) =>
               /\ onRunCalls' = onRunCalls + 1
               /\ error' = Null
               /\ onRunParams' # Undefined
               /\ onRunParams'[1].successRate = inputSuccessRate
               /\ onRunParams'[1].numSequences = inputNumSequences
         /\ (HandleSubmit /\ ~ valid) =>
               /\ onRunCalls' = onRunCalls
               /\ onRunParams' = onRunParams
               /\ error' # Null
         /\ (onRunCalls' # onRunCalls) => (HandleSubmit /\ valid)]_vars

\* C19 witness: a submit was refused with an error message and a later
\* submit, at a limit of the accepted range, called onRun and cleared it.
SubmitValidatesWitness ==
  /\ refusedSubmits >= 1
  /\ onRunCalls >= 1
  /\ error = Null
  /\ onRunParams[1].successRate = Tenth
  /\ onRunParams[1].numSequences = 1

\* The specified scan of one 0/1 sequence of length len: start at 0, scan
\* while the position is <= len - 3; on a pair count it, count a success if
\* the follower is a success, and advance by 3; otherwise advance by 1.
\* The list of the positions visited, each with the counts reached there.
RECURSIVE SpecifiedScan(_, _, _, _, _, _)
SpecifiedScan(seq, len, at, total, success, steps) ==
  IF at <= len - 3
  THEN IF seq[at] = 1 /\ seq[at + 1] = 1
       THEN LET newSuccess == IF seq[at + 2] = 1 THEN success + 1 ELSE success
            IN  SpecifiedScan(seq, len, at + 3, total + 1, newSuccess,
                  Append(steps, [index |-> at, total |-> total + 1,
                                 success |-> newSuccess]))
       ELSE SpecifiedScan(seq, len, at + 1, total, success,
              Append(steps, [index |-> at, total |-> total,
                             success |-> success]))
  ELSE steps

\* C20: for every 0/1 sequence the scanner loop of simulateBackendCall
\* visits the indices the specified algorithm visits, in the same order,
\* adds to streakTotal and streakSuccess at each of them what the specified
\* algorithm counts there, and ends where the specified algorithm ends.
ScannerMatchesSpecified ==
  pc \in {"scan", "checkpoint"} =>
    LET steps == SpecifiedScan(sequence, TrialCount, 0, 0, 0, <<>>)
        done  == Len(visited)
    IN  /\ done <= Len(steps)
        /\ \A j \in 1 .. done : visited[j] = steps[j].index
        /\ streakTotal - totalAtRunStart =
             (IF done = 0 THEN 0 ELSE steps[done].total)
        /\ streakSuccess - successAtRunStart =
             (IF done = 0 THEN 0 ELSE steps[done].success)
        /\ (pc = "scan" /\ done < Len(steps)) => i = steps[done + 1].index
        /\ pc = "checkpoint" => done = Len(steps)

\* C20 witness: a run of six successes has been scanned to its end: two
\* pairs counted, at the indices 0 and 3, each with a successful follower.
ScannerMatchesSpecifiedWitness ==
  /\ pc = "checkpoint"
  /\ visited = <<0, 3>>
  /\ streakTotal - totalAtRunStart = 2
  /\ streakSuccess - successAtRunStart = 2

\* C21: every call of simulateBackendCall terminates after generating and
\* scanning exactly numSequences runs: the scan index strictly increases at
\* every step of a scan, the call leaves the outer loop only with the run
\* counter past numSequences and numSequences runs generated, and the
\* result is eventually returned.
TerminatesAfterAllRuns ==
  /\ <>(pc = "done")
  /\ [][(pc = "scan" /\ pc' = "scan") => i' > i]_vars
  /\ [][(pc # "done" /\ pc' = "done") =>
          /\ seqNum = numSequences + 1
          /\ Len(drawnCounts) = numSequences
          /\ Len(returned') = Len(returned) + 1]_vars

\* C21 witness: a call for two runs with random trials has returned.
TerminatesAfterAllRunsWitness ==
  /\ pc = "done"
  /\ numSequences = 2
  /\ successRate = Half
  /\ Len(returned) = 1

\* C22: after any sequence of single runs experimentHistory holds the last
\* 10 successful runs at most: its length is min(10, number of successful
\* runs), its entries are the latest successes, newest first (clock is the
\* number of successful runs; the k-th of them is stamped k - 1), and a
\* failed run adds no entry.
HistoryKeepsLastTen ==
  /\ Len(experimentHistory) = (IF clock < 10 THEN clock ELSE 10)
  /\ \A j \in 1 .. Len(experimentHistory) :
       experimentHistory[j].timestamp = clock - j

\* C22 witness: eleven runs succeeded and one failed; the history holds ten.
HistoryKeepsLastTenWitness ==
  /\ clock = 11
  /\ started = 12
  /\ pending = <<>>
  /\ Len(experimentHistory) = 10

\* The handleCompare invocations in flight.
CompareTasks(list) ==
  {list[j] : j \in {k \in 1 .. Len(list) : list[k].kind = "compare"}}

\* C23: the step that completes a successful comparison (its second call
\* resolves; comparisonArrivals then holds the two calls in the order they
\* resolved) leaves the first
\* run on the main display: snapshots is the snapshots of the result of the
\* call made with run1, final its final, currentStep is 0; and no step of a
\* comparison (start, a call resolving, completion, failure) changes
\* experimentHistory.
ComparisonShowsFirstRun ==
  [][/\ (Len(pending') < Len(pending) /\ Len(comparisonArrivals') = 2) =>
          \A t \in 1 .. Len(pending) :
            LET call    == 3 - comparisonArrivals'[1].call
                results == comparisonArrivals'[2].results
            IN  (pending[t].kind = "compare"
                   /\ pending[t].arrived = <<comparisonArrivals'[1]>>
                   /\ CompareCallResolved(t, call, results)) =>
                  LET first == IF call = 1 THEN results
                               ELSE pending[t].arrived[1].results
                  IN  /\ appSnapshots' = first.snapshots
                      /\ final' = first.final
                      /\ comparisonResults'[1].run1 = first
                      /\ currentStep' = 0
     /\ (CompareTasks(pending') # CompareTasks(pending)) =>
          experimentHistory' = experimentHistory]_vars

\* C23 witness: after a single run, a comparison whose two results differ
\* has completed: the display shows its first run and the history still
\* holds the single run.
ComparisonShowsFirstRunWitness ==
  /\ comparisonResults # Undefined
  /\ comparisonResults[1].run1 # comparisonResults[1].run2
  /\ appSnapshots = comparisonResults[1].run1.snapshots
  /\ appSnapshots # <<>>
  /\ currentStep = 0
  /\ Len(experimentHistory) = 1
  /\ pending = <<>>

\* C24 as claimed: Ctrl+Enter does what a click on 'Run Analysis' does at
\* that moment: every step of the keyboard shortcut is a step of
\* handleSubmit on the values the form shows.
ShortcutSubmitsShownValues == [][KeyboardSubmit => HandleSubmit]_vars

\* C25 as claimed: a click on 'Run Comparison' calls onCompare with run1
\* equal to the success rate, number of sequences and seed entered in the
\* card titled 'Run 1 Settings', and run2 equal to the values entered in the
\* card 'Run 2 Settings'.
CompareSendsBothCards ==
  [][FormHandleCompare =>
       /\ onCompareParams' # Undefined
       /\ onCompareParams'[1].run1 =
            [successRate  |-> inputSuccessRate,
             numSequences |-> inputNumSequences,
             seed         |-> IF inputSeed = "" THEN Undefined
                              ELSE Defined(NumberOf(inputSeed))]
       /\ onCompareParams'[1].run2 =
            [successRate  |-> comparisonRun2.successRate,
             numSequences |-> comparisonRun2.numSequences,
             seed         |-> IF comparisonRun2.seed = "" THEN Undefined
                              ELSE Defined(NumberOf(comparisonRun2.seed))]]_vars

\* C26 as claimed: loading is true whenever a backend call started by
\* handleRun or handleCompare has not completed, and false once all have.
LoadingWhileInFlight == loading <=> (pending # <<>>)

\* C27 as claimed: when single runs were started before earlier ones
\* returned, once all responses have arrived the displayed snapshots and
\* final are those of the most recently started run, and
\* experimentHistory[0] is that run.
LatestStartedRunShown ==
  (pending = <<>> /\ latestRun.results # Undefined) =>
    /\ appSnapshots = latestRun.results[1].snapshots
    /\ final = latestRun.results[1].final
    /\ experimentHistory[1].results = latestRun.results[1]

\* C28 as claimed: whenever snapshots is non-empty,
\* 0 <= currentStep <= snapshots.length - 1.
CurrentStepInRange ==
  appSnapshots # <<>> =>
    (0 <= currentStep /\ currentStep <= Len(appSnapshots) - 1)

\* C29 as claimed, in what it says of the failing step: when a call of a
\* comparison fails, handleCompare ends with comparisonResults undefined
\* and loading false, and leaves snapshots, final, currentStep and
\* experimentHistory alone.
FailedComparisonStoresNothing ==
  [][\A t \in 1 .. Len(pending) : \A call \in {1, 2} :
       CompareCallRejected(t, call) =>
         /\ comparisonResults' = Undefined
         /\ loading' = FALSE
         /\ appSnapshots' = appSnapshots
         /\ final' = final
         /\ currentStep' = currentStep
         /\ experimentHistory' = experimentHistory]_vars

\* C30 as claimed: an animation tick sets currentStep to
\* min(currentStep + 1, snapshots.length - 1) and never decreases it, a tick
\* at snapshots.length - 1 leaves it there, and the start of a single run
\* sets isAnimating to false and currentStep to 0.
AnimationAdvances ==
  [][/\ AnimationTick =>
          /\ currentStep' = Min(currentStep + 1, Len(appSnapshots) - 1)
          /\ currentStep' >= currentStep
          /\ (currentStep = Len(appSnapshots) - 1 => currentStep' = currentStep)
     /\ (latestRun'.id # latestRun.id) =>
          (isAnimating' = FALSE /\ currentStep' = 0)]_vars

====
